---- MODULE Spec2Model ----
(***************************************************************************)
(* A model of hone/github-contributions: the contribution aggregation      *)
(* pipeline (grouping by author, enrichment, membership, policy filter),   *)
(* the exclusion patterns, the pagination walker and the per-repository    *)
(* collector.                                                              *)
(*                                                                         *)
(* Strings that are matched by a regex are sequences of one-character      *)
(* strings; strings that are only compared for equality (logins, repo      *)
(* names) are plain strings.  Option<T> is a sequence of length 0 or 1.    *)
(***************************************************************************)
EXTENDS Integers, Sequences, FiniteSets, TLC

VARIABLES
    \* process_contributions
    cfg,        \* the configuration and the since/until window of the run
    input,      \* the contributions handed to process_contributions
    by_user,    \* the HashMap built by contributions_by_user
    todo,       \* keys of by_user the for loop of output_stream has not visited
    outputs,    \* the Output records yielded so far
    calls,      \* remote calls issued so far, in order
    trace,      \* one record per group visited: what the loop body did with it
    pc,         \* "start" | "loop" | "done" | "idle"
    result,     \* None until process_contributions returns, then Some(Result)
    \* the exclusion patterns
    re_token,   \* a configured companies_exclude entry
    re_subject, \* a company or email string matched against it
    re_out,     \* None, or Some([company |-> BOOLEAN, email |-> BOOLEAN])
    \* process_pages
    pw_chain,   \* the paginated resource: a sequence of pages of items
    pw,         \* the walker: process_pages at its current get_page await
    \* contributions(repo)
    co_world,   \* the repository's paginated issues, pulls, reviews and commits
    co_issues,  \* the self.issues(repo, params) future
    co_reviews, \* the self.reviews(repo) future
    co_commits, \* the self.commits(repo, params) future
    co_result,  \* None until tokio::join! completes, then Some(Result)
    co_first,   \* what the first listing request of each future was answered
    \* main
    m_pc,       \* "idle" | "fetch" | "process" | "exit"
    m_tasks,    \* what join_all(tasks) returned: one Result per tracked repo
    per_repo,   \* the HashMap<Repo, Vec<Contribution>> built by main
    m_stdout,   \* the lines main has printed on standard output
    m_exit      \* None until main returns, then Some(Result)

procVars == <<cfg, input, by_user, todo, outputs, calls, trace, pc, result>>
regexVars == <<re_token, re_subject, re_out>>
pageVars == <<pw_chain, pw>>
collectVars == <<co_world, co_issues, co_reviews, co_commits, co_result, co_first>>
mainVars == <<m_pc, m_tasks, per_repo, m_stdout, m_exit>>
vars == <<procVars, regexVars, pageVars, collectVars, mainVars>>

----------------------------------------------------------------------------
(* Option<T> *)

None == <<>>
Some(v) == <<v>>
IsSome(o) == o # <<>>
Unwrap(o) == o[1]

(* Result<T, octocrab::Error> *)
Ok(v) == [ok |-> TRUE, value |-> v]
Err(e) == [ok |-> FALSE, error |-> e]

(* octocrab::Error: the GitHub variant carries the documentation_url of the *)
(* failing endpoint, every other variant is a transport-level failure.      *)
GitHubError(url) == [variant |-> "GitHub", documentation_url |-> url]
OtherError == [variant |-> "Other", documentation_url |-> ""]

USERS_DOC_URL == "https://docs.github.com/rest/reference/users#get-a-user"
ISSUES_DOC_URL == "https://docs.github.com/rest/reference/issues#list-repository-issues"
PULLS_DOC_URL == "https://docs.github.com/rest/reference/pulls#list-pull-requests"
COMMITS_DOC_URL == "https://docs.github.com/rest/reference/repos#list-commits"
UNRELATED_DOC_URL == "https://docs.github.com/rest"

----------------------------------------------------------------------------
(* Bounds *)

MaxContribs == 2
MaxLabels == 3
MaxPages == 3
MaxItems == 2

(* const MAX_TRIES: usize = 5 *)
MAX_TRIES == 5

----------------------------------------------------------------------------
(* Character strings *)

S_Acme == <<"A", "c", "m", "e">>
S_acme == <<"a", "c", "m", "e">>
S_heroku == <<"h", "e", "r", "o", "k", "u">>
S_ACME_Corp == <<"A", "C", "M", "E", " ", "C", "o", "r", "p">>
S_Initech == <<"I", "n", "i", "t", "e", "c", "h">>
S_user_at_acme_com ==
    <<"u", "s", "e", "r", "@", "a", "c", "m", "e", ".", "c", "o", "m">>
S_user_at_mail_acme_com ==
    <<"u", "s", "e", "r", "@", "m", "a", "i", "l", ".",
      "a", "c", "m", "e", ".", "c", "o", "m">>
S_user_at_m_acme_com ==
    <<"u", "s", "e", "r", "@", "m", ".", "a", "c", "m", "e", ".", "c", "o", "m">>
S_user_at_notacme_com ==
    <<"u", "s", "e", "r", "@", "n", "o", "t",
      "a", "c", "m", "e", ".", "c", "o", "m">>
S_user_at_example_org ==
    <<"u", "s", "e", "r", "@", "e", "x", "a", "m", "p", "l", "e", ".", "o", "r", "g">>

\* "HEROKU" written with U+212A KELVIN SIGN for its K
S_HEROKU_kelvin == <<"H", "E", "R", "O", "U+212A", "U">>
\* u@<U+00E9>.acme.com and u@<U+0663>.acme.com: one-character labels
S_u_at_eacute_acme_com ==
    <<"u", "@", "U+00E9", ".", "a", "c", "m", "e", ".", "c", "o", "m">>
S_u_at_arabic3_acme_com ==
    <<"u", "@", "U+0663", ".", "a", "c", "m", "e", ".", "c", "o", "m">>
\* u@<U+2014>.acme.com: EM DASH is not a word character
S_u_at_emdash_acme_com ==
    <<"u", "@", "U+2014", ".", "a", "c", "m", "e", ".", "c", "o", "m">>
\* "U+017F" LONG S for the s of "sigma" and a capital sigma spelled out
S_long_s == <<"U+017F">>
S_s == <<"s">>
S_sigmas == <<"U+03C3", "U+03C2">>
S_SIGMAS == <<"U+03A3", "U+03A3">>

UpperLetters ==
    {"A", "B", "C", "D", "E", "F", "G", "H", "I", "J", "K", "L", "M",
     "N", "O", "P", "Q", "R", "S", "T", "U", "V", "W", "X", "Y", "Z"}
LowerLetters ==
    {"a", "b", "c", "d", "e", "f", "g", "h", "i", "j", "k", "l", "m",
     "n", "o", "p", "q", "r", "s", "t", "u", "v", "w", "x", "y", "z"}
Digits == {"0", "1", "2", "3", "4", "5", "6", "7", "8", "9"}

\* Characters outside ASCII are written as the name of their code point.  The
\* regex crate works on Unicode scalar values: these are the ones the model
\* carries, all of them word characters (letters and a decimal digit):
\* U+00C9 E WITH ACUTE, U+00E9 e WITH ACUTE, U+017F LONG S, U+212A KELVIN SIGN,
\* U+03A3 CAPITAL SIGMA, U+03C3 SMALL SIGMA, U+03C2 FINAL SIGMA,
\* U+0663 ARABIC-INDIC DIGIT THREE
NonAsciiWord ==
    {"U+00C9", "U+00E9", "U+017F", "U+212A", "U+03A3", "U+03C3", "U+03C2",
     "U+0663"}

\* (?i): Unicode simple case folding; two characters match under (?i) iff they
\* fold to the same character
Fold(ch) ==
    CASE ch = "A" -> "a" [] ch = "B" -> "b" [] ch = "C" -> "c" [] ch = "D" -> "d"
      [] ch = "E" -> "e" [] ch = "F" -> "f" [] ch = "G" -> "g" [] ch = "H" -> "h"
      [] ch = "I" -> "i" [] ch = "J" -> "j" [] ch = "K" -> "k" [] ch = "L" -> "l"
      [] ch = "M" -> "m" [] ch = "N" -> "n" [] ch = "O" -> "o" [] ch = "P" -> "p"
      [] ch = "Q" -> "q" [] ch = "R" -> "r" [] ch = "S" -> "s" [] ch = "T" -> "t"
      [] ch = "U" -> "u" [] ch = "V" -> "v" [] ch = "W" -> "w" [] ch = "X" -> "x"
      [] ch = "Y" -> "y" [] ch = "Z" -> "z"
      [] ch = "U+212A" -> "k"
      [] ch = "U+017F" -> "s"
      [] ch = "U+00C9" -> "U+00E9"
      [] ch = "U+03A3" -> "U+03C3"
      [] ch = "U+03C2" -> "U+03C3"
      [] OTHER -> ch

\* \w, Unicode-aware: the pattern does not switch Unicode off
IsWordChar(ch) ==
    ch \in UpperLetters \cup LowerLetters \cup Digits \cup {"_"} \cup NonAsciiWord

----------------------------------------------------------------------------
(* The exclusion patterns: impl From<&config::Repo> for RepoRegex *)

\* the literal regex::escape(company) matched at position i of s, under (?i)
LiteralAtCI(s, i, lit) ==
    /\ i >= 1
    /\ i + Len(lit) - 1 <= Len(s)
    /\ \A k \in 1..Len(lit) : Fold(s[i + k - 1]) = Fold(lit[k])

\* (\w\.)* from position i: n repetitions of one word character and a dot
WordDotRepeatAt(s, i, n) ==
    /\ i + 2 * n - 1 <= Len(s)
    /\ \A j \in 0..(n - 1) : IsWordChar(s[i + 2 * j]) /\ s[i + 2 * j + 1] = "."

\* Regex::new(format!(r#"(?i){}"#, regex::escape(company)))
CompanyRegex(company) == [pattern |-> "company", lit |-> company]

\* Regex::new(format!(r#"@(\w\.)*(?i){}(?-i)\."#, regex::escape(company)))
EmailRegex(company) == [pattern |-> "email", lit |-> company]

\* (?i)<lit> found anywhere in s
CompanyPattern(lit, s) ==
    \E i \in 1..(Len(s) + 1) : LiteralAtCI(s, i, lit)

\* @(\w\.)*(?i)<lit>(?-i)\. found anywhere in s
EmailPattern(lit, s) ==
    \E a \in 1..Len(s) :
        /\ s[a] = "@"
        /\ \E n \in 0..Len(s) :
              /\ WordDotRepeatAt(s, a + 1, n)
              /\ LiteralAtCI(s, a + 1 + 2 * n, lit)
              /\ a + 1 + 2 * n + Len(lit) <= Len(s)
              /\ s[a + 1 + 2 * n + Len(lit)] = "."

\* Regex::is_match
is_match(re, s) ==
    IF re.pattern = "company" THEN CompanyPattern(re.lit, s)
    ELSE EmailPattern(re.lit, s)

ExcludeRegex(company) ==
    [company |-> CompanyRegex(company), email |-> EmailRegex(company)]

\* RepoRegex::from(&config::Repo)
RepoRegex(value) ==
    [repo |-> value.repo,
     companies_exclude |->
        [i \in 1..Len(value.companies_exclude) |->
            ExcludeRegex(value.companies_exclude[i])]]

----------------------------------------------------------------------------
(* Contribution model *)

Repo(org, name) == [org |-> org, name |-> name]

User(id, login, node_id) == [id |-> id, login |-> login, node_id |-> node_id]

Commit(author, date) == [kind |-> "Commit", author |-> author, date |-> date]
Issue(user, at) == [kind |-> "Issue", user |-> user, created_at |-> at]
Review(user, at) == [kind |-> "Review", user |-> user, submitted_at |-> at]

\* Contribution::new; uid is the identity of the fetched record
Contribution(repo, payload, uid) ==
    [repo |-> repo, contribution |-> payload, uid |-> uid]

\* Contribution::created_at
created_at(c) ==
    CASE c.contribution.kind = "Commit" -> Some(c.contribution.date)
      [] c.contribution.kind = "Issue" -> Some(c.contribution.created_at)
      [] c.contribution.kind = "Review" -> c.contribution.submitted_at

\* Contribution::user
user(c) ==
    CASE c.contribution.kind = "Commit" -> c.contribution.author
      [] c.contribution.kind = "Issue" -> Some(c.contribution.user)
      [] c.contribution.kind = "Review" -> Some(c.contribution.user)

EnrichedUser(inner, company, email) ==
    [inner |-> inner, company |-> company, email |-> email]

Output(maybe_user, membership, contributions) ==
    [user |-> maybe_user, membership |-> membership,
     contributions |-> contributions]

----------------------------------------------------------------------------
(* Author grouping *)

\* user.as_ref().map(|u| u.id)
user_id(maybe_user) ==
    IF IsSome(maybe_user) THEN Some(Unwrap(maybe_user).id) ELSE None

EmptyMap == [k \in {} |-> <<>>]

\* faulty variant, for sensitivity analysis: the key is the contribution's own snapshot (plain entry(user))
group_key_by_snapshot(m, c) == user(c)

\* the key under which contributions_by_user files a contribution: the key
\* already in the map that has the same id, else the contribution's own user
group_key(m, c) ==
    LET same == {k \in DOMAIN m : user_id(k) = user_id(user(c))}
    IN  IF same # {} THEN CHOOSE k \in same : TRUE ELSE user(c)

\* entry(key).or_insert(Vec::new()).push(contribution)
push_entry(m, key, c) ==
    [k \in DOMAIN m \cup {key} |->
        IF k = key
        THEN (IF k \in DOMAIN m THEN m[k] ELSE <<>>) \o <<c>>
        ELSE m[k]]

RECURSIVE by_user_fold(_, _)
by_user_fold(cs, m) ==
    IF cs = <<>> THEN m
    ELSE by_user_fold(Tail(cs), push_entry(m, group_key(m, Head(cs)), Head(cs)))

contributions_by_user(contributions) == by_user_fold(contributions, EmptyMap)

----------------------------------------------------------------------------
(* Enrichment and membership *)

GetUserCall(login) == [op |-> "get_user", login |-> login, org |-> <<>>]
MembershipCall(org, login) == [op |-> "check_membership", login |-> login, org |-> org]

\* user_overrides.map(|o| (o.login.clone(), o)).collect::<HashMap<_, _>>():
\* a later entry for a login replaces an earlier one
user_overrides_map(user_overrides) ==
    [l \in {user_overrides[i].login : i \in DOMAIN user_overrides} |->
        user_overrides[
            CHOOSE i \in DOMAIN user_overrides :
                /\ user_overrides[i].login = l
                /\ \A j \in DOMAIN user_overrides :
                      user_overrides[j].login = l => j <= i]]

\* users_exclude.clone().find(|login| user.login == login).is_some()
is_excluded(users_exclude, u) ==
    \E i \in DOMAIN users_exclude : u.login = users_exclude[i]

\* faulty variant, for sensitivity analysis: any configured organization will do
override_membership_any_org(company_orgs, override_user) ==
    company_orgs # <<>>

\* company_orgs.clone().find(|org| org == override_user.company).is_some()
override_membership(company_orgs, override_user) ==
    \E i \in DOMAIN company_orgs : company_orgs[i] = override_user.company

\* faulty variant, for sensitivity analysis: every platform error degrades
enrich_user_any_marker(u, response) ==
    IF response.ok THEN Ok(response.value)
    ELSE IF response.error.variant = "GitHub"
         THEN Ok(EnrichedUser(u, None, None))
         ELSE Err(response.error)

\* enrich_user; response is the outcome of GET /users/{login}
enrich_user(u, response) ==
    IF response.ok THEN Ok(response.value)
    ELSE IF response.error.variant = "GitHub"
         THEN IF response.error.documentation_url = USERS_DOC_URL
              THEN Ok(EnrichedUser(u, None, None))
              ELSE Err(response.error)
         ELSE Err(response.error)

\* check_membership; responses[i] is what organization i answers if it is asked
RECURSIVE check_membership_from(_, _, _, _, _, _)
check_membership_from(login, orgs, responses, i, membership, made) ==
    IF i > Len(orgs) THEN [result |-> Ok(membership), calls |-> made]
    ELSE IF membership
         THEN check_membership_from(login, orgs, responses, i + 1, TRUE, made)
         ELSE LET asked == Append(made, MembershipCall(orgs[i], login))
              IN  IF responses[i].ok
                  THEN check_membership_from(login, orgs, responses, i + 1,
                                             responses[i].value, asked)
                  ELSE [result |-> Err(responses[i].error), calls |-> asked]

\* faulty variant, for sensitivity analysis: every organization is asked
RECURSIVE check_every_org_from(_, _, _, _, _, _)
check_every_org_from(login, orgs, responses, i, membership, made) ==
    IF i > Len(orgs) THEN [result |-> Ok(membership), calls |-> made]
    ELSE LET asked == Append(made, MembershipCall(orgs[i], login))
         IN  IF responses[i].ok
             THEN check_every_org_from(login, orgs, responses, i + 1,
                                       membership \/ responses[i].value, asked)
             ELSE [result |-> Err(responses[i].error), calls |-> asked]

check_every_org(login, orgs, responses) ==
    check_every_org_from(login, orgs, responses, 1, FALSE, <<>>)

check_membership(login, orgs, responses) ==
    check_membership_from(login, orgs, responses, 1, FALSE, <<>>)

----------------------------------------------------------------------------
(* Policy filter: the closure of output_stream's filter *)

\* contribution_time < since
before_since(params, c) ==
    /\ IsSome(created_at(c))
    /\ IsSome(params.since)
    /\ Unwrap(created_at(c)) < Unwrap(params.since)

\* contribution_time >= until
at_or_after_until(params, c) ==
    /\ IsSome(created_at(c))
    /\ IsSome(params.until)
    /\ Unwrap(created_at(c)) >= Unwrap(params.until)

\* faulty variant, for sensitivity analysis: the email half of the test is left out
any_exclude_matches_company_only(config_repo, enriched_user) ==
    \E i \in DOMAIN config_repo.companies_exclude :
        /\ IsSome(enriched_user.company)
        /\ is_match(config_repo.companies_exclude[i].company,
                    Unwrap(enriched_user.company))

\* companies_exclude.iter().any(|exclude_re| company matches || email matches)
any_exclude_matches(config_repo, enriched_user) ==
    \E i \in DOMAIN config_repo.companies_exclude :
        \/ /\ IsSome(enriched_user.company)
           /\ is_match(config_repo.companies_exclude[i].company,
                       Unwrap(enriched_user.company))
        \/ /\ IsSome(enriched_user.email)
           /\ is_match(config_repo.companies_exclude[i].email,
                       Unwrap(enriched_user.email))

\* the filter closure: TRUE keeps the contribution
retain(config_repo, enriched_user, params, c) ==
    IF before_since(params, c) THEN FALSE
    ELSE IF at_or_after_until(params, c) THEN FALSE
    ELSE IF config_repo.repo = c.repo
         THEN ~any_exclude_matches(config_repo, enriched_user)
         ELSE TRUE

\* for config_repo in repos.clone() { processed = processed.filter(..).collect() }
RECURSIVE filter_by_repos(_, _, _, _)
filter_by_repos(repos, enriched_user, params, contributions) ==
    IF repos = <<>> THEN contributions
    ELSE filter_by_repos(
            Tail(repos), enriched_user, params,
            SelectSeq(contributions,
                      LAMBDA c : retain(Head(repos), enriched_user, params, c)))

repos_re(repos) == [i \in 1..Len(repos) |-> RepoRegex(repos[i])]

----------------------------------------------------------------------------
(* One iteration of the for loop of output_stream *)

Step(outcome, made, error, enriched, membership, kept, stages) ==
    [outcome |-> outcome, calls |-> made, error |-> error, user |-> enriched,
     membership |-> membership, contributions |-> kept, stages |-> stages]

\* faulty variant, for sensitivity analysis: the emptiness test is left out
yield_always(made, enriched, membership, kept, stages) ==
    Step("yield", made, None, enriched, membership, kept, stages)

\* don't yield an output if there are no contributions
yield_or_skip(made, enriched, membership, kept, stages) ==
    IF Len(kept) <= 0
    THEN Step("skip_empty", made, None, enriched, membership, kept, stages)
    ELSE Step("yield", made, None, enriched, membership, kept, stages)

filter_and_yield(config, made, enriched_user, membership, contributions, stages) ==
    yield_or_skip(
        made, Some(enriched_user), membership,
        filter_by_repos(repos_re(config.repos), enriched_user,
                        [since |-> config.since, until |-> config.until],
                        contributions),
        stages \o [i \in 1..Len(config.repos) |-> "filter"])

\* faulty variant, for sensitivity analysis: the override's company is not copied into the author
override_branch_no_company(config, u, contributions) ==
    LET override_user == user_overrides_map(config.user_overrides)[u.login]
        enriched_user == EnrichedUser(u, None, None)
    IN  filter_and_yield(config, <<>>, enriched_user,
                         override_membership(config.company_orgs, override_user),
                         contributions, <<"exclude_check", "override">>)

override_branch(config, u, contributions) ==
    LET override_user == user_overrides_map(config.user_overrides)[u.login]
        enriched_user == EnrichedUser(u, Some(override_user.company), None)
    IN  filter_and_yield(config, <<>>, enriched_user,
                         override_membership(config.company_orgs, override_user),
                         contributions, <<"exclude_check", "override">>)

fetch_branch(config, u, contributions, profile, memberships) ==
    LET enriched == enrich_user(u, profile)
        fetched == <<GetUserCall(u.login)>>
    IN  IF ~enriched.ok
        THEN Step("error", fetched, Some(enriched.error), None, FALSE,
                  contributions, <<"exclude_check", "enrich_user">>)
        ELSE LET checked == check_membership(enriched.value.inner.login,
                                             config.company_orgs, memberships)
             IN  IF ~checked.result.ok
                 THEN Step("error", fetched \o checked.calls,
                           Some(checked.result.error), None, FALSE, contributions,
                           <<"exclude_check", "enrich_user", "check_membership">>)
                 ELSE filter_and_yield(
                        config, fetched \o checked.calls, enriched.value,
                        checked.result.value, contributions,
                        <<"exclude_check", "enrich_user", "check_membership">>)

\* faulty variant, for sensitivity analysis: membership starts out true
loop_body_member_by_default(config, maybe_user, contributions, profile, memberships) ==
    IF IsSome(maybe_user)
    THEN IF is_excluded(config.users_exclude, Unwrap(maybe_user))
         THEN Step("skip_excluded", <<>>, None, None, TRUE, contributions,
                   <<"exclude_check">>)
         ELSE IF Unwrap(maybe_user).login
                    \in DOMAIN user_overrides_map(config.user_overrides)
              THEN override_branch(config, Unwrap(maybe_user), contributions)
              ELSE fetch_branch(config, Unwrap(maybe_user), contributions,
                                profile, memberships)
    ELSE yield_or_skip(<<>>, None, TRUE, contributions, <<>>)

\* faulty variant, for sensitivity analysis: the override is looked up before the exclude list
loop_body_override_first(config, maybe_user, contributions, profile, memberships) ==
    IF IsSome(maybe_user)
    THEN IF Unwrap(maybe_user).login
                \in DOMAIN user_overrides_map(config.user_overrides)
         THEN override_branch(config, Unwrap(maybe_user), contributions)
         ELSE IF is_excluded(config.users_exclude, Unwrap(maybe_user))
              THEN Step("skip_excluded", <<>>, None, None, FALSE, contributions,
                        <<"exclude_check">>)
              ELSE fetch_branch(config, Unwrap(maybe_user), contributions,
                                profile, memberships)
    ELSE yield_or_skip(<<>>, None, FALSE, contributions, <<>>)

loop_body(config, maybe_user, contributions, profile, memberships) ==
    IF IsSome(maybe_user)
    THEN IF is_excluded(config.users_exclude, Unwrap(maybe_user))
         THEN Step("skip_excluded", <<>>, None, None, FALSE, contributions,
                   <<"exclude_check">>)
         ELSE IF Unwrap(maybe_user).login
                    \in DOMAIN user_overrides_map(config.user_overrides)
              THEN override_branch(config, Unwrap(maybe_user), contributions)
              ELSE fetch_branch(config, Unwrap(maybe_user), contributions,
                                profile, memberships)
    ELSE yield_or_skip(<<>>, None, FALSE, contributions, <<>>)

----------------------------------------------------------------------------
(* Inputs of process_contributions *)

alice == User(1, "alice", "a")
alice_later == User(1, "alice", "b")   \* same account, another snapshot
bob == User(2, "bob", "a")

R1 == Repo("acme", "widget")
R2 == Repo("acme", "gadget")

Fetched(repo, payload) == [repo |-> repo, payload |-> payload]

Pool ==
    { Fetched(R1, Commit(None, 0)),
      Fetched(R1, Commit(None, 1)),
      Fetched(R2, Commit(Some(bob), 1)),
      Fetched(R1, Issue(alice, 0)),
      Fetched(R1, Issue(alice, 1)),
      Fetched(R2, Review(alice_later, Some(2))),
      Fetched(R1, Review(alice_later, None)) }

Inputs ==
    { [i \in 1..Len(f) |-> Contribution(f[i].repo, f[i].payload, i)] :
        f \in UNION { [1..n -> Pool] : n \in 0..MaxContribs } }

ConfigRepo(repo, companies_exclude) ==
    [repo |-> repo, companies_exclude |-> companies_exclude]

UserOverride(login, company) == [login |-> login, company |-> company]

Config(company_orgs, repos, user_overrides, users_exclude, since, until) ==
    [company_orgs |-> company_orgs, repos |-> repos,
     user_overrides |-> user_overrides, users_exclude |-> users_exclude,
     since |-> since, until |-> until]

RepoChoices ==
    { <<>>,
      <<ConfigRepo(R1, <<S_Acme>>)>>,
      <<ConfigRepo(R2, <<>>), ConfigRepo(R1, <<S_Initech, S_Acme>>)>> }

Windows ==
    { <<None, None>>, <<Some(1), None>>, <<None, Some(2)>>, <<Some(1), Some(2)>> }

\* runs that vary the tracked repositories and the window
FilterConfigs ==
    { Config(<<>>, r, <<>>, <<>>, w[1], w[2]) : r \in RepoChoices, w \in Windows }

\* runs that vary the company organizations, the overrides and the exclude list
PolicyConfigs ==
    { Config(o, <<ConfigRepo(R1, <<S_Acme>>)>>, v, x, Some(1), Some(2)) :
        o \in { <<>>, <<S_heroku>> },
        v \in { <<>>, <<UserOverride("alice", S_heroku)>>,
                <<UserOverride("alice", S_heroku), UserOverride("alice", S_acme)>> },
        x \in { <<>>, <<"alice">> } }

\* runs that vary the number of company organizations
MembershipConfigs ==
    { Config(o, <<ConfigRepo(R1, <<>>)>>, <<>>, <<>>, None, None) :
        o \in { <<>>, <<S_heroku>>, <<S_heroku, S_Initech>>,
                <<S_heroku, S_Initech, S_acme>> } }

\* one author, two authors, an author and an authorless commit
MembershipInputs ==
    { <<Contribution(R1, Issue(alice, 1), 1)>>,
      <<Contribution(R1, Issue(alice, 1), 1),
        Contribution(R2, Commit(Some(bob), 1), 2)>>,
      <<Contribution(R1, Commit(None, 1), 1),
        Contribution(R2, Commit(Some(bob), 1), 2)>> }

\* what GET /users/{login} can answer
ProfileResponses(maybe_user) ==
    IF IsSome(maybe_user)
    THEN { Ok(EnrichedUser(Unwrap(maybe_user), p[1], p[2])) :
             p \in { <<None, None>>,
                     <<Some(S_ACME_Corp), None>>,
                     <<Some(S_Initech), Some(S_user_at_acme_com)>> } }
         \cup { Err(GitHubError(USERS_DOC_URL)),
                Err(GitHubError(UNRELATED_DOC_URL)),
                Err(OtherError) }
    ELSE { Err(OtherError) }

\* what each organization can answer to a membership check
MembershipResponses(company_orgs) ==
    [1..Len(company_orgs) -> { Ok(TRUE), Ok(FALSE), Err(OtherError) }]

----------------------------------------------------------------------------
(* The exclusion patterns on their own *)

\* company strings: every short string over a few letters and the space
Companies == UNION { [1..n -> {"a", "A", "b", " "}] : n \in 0..MaxLabels }

Labels == { <<"a">>, <<"A", "b">>, <<"b">>, <<"b", "b">>, <<"b", "a">> }

RECURSIVE JoinDots(_)
JoinDots(labels) ==
    IF Len(labels) = 1 THEN labels[1]
    ELSE labels[1] \o <<".">> \o JoinDots(Tail(labels))

\* emails u@<label>.<label>...
Emails ==
    { <<"u", "@">> \o JoinDots(ls) :
        ls \in UNION { [1..n -> Labels] : n \in 1..MaxLabels } }

RegexCases ==
    ({ <<"a">>, <<"A", "b">> } \X (Companies \cup Emails))
    \cup ({ S_Acme } \X { S_ACME_Corp, S_user_at_acme_com, S_user_at_mail_acme_com,
                          S_user_at_m_acme_com, S_user_at_notacme_com,
                          S_user_at_example_org })
    \cup ({ S_heroku } \X { S_HEROKU_kelvin, S_ACME_Corp })
    \cup ({ S_acme } \X { S_u_at_eacute_acme_com, S_u_at_arabic3_acme_com,
                          S_u_at_emdash_acme_com })
    \cup { <<S_s, S_long_s>>, <<S_sigmas, S_SIGMAS>> }

RegexIdle == re_token = <<>> /\ re_subject = <<>> /\ re_out = None

InitRegex ==
    /\ \E rc \in RegexCases : re_token = rc[1] /\ re_subject = rc[2]
    /\ re_out = None

\* compile the two patterns of one companies_exclude entry and match a string
MatchPatterns ==
    /\ re_out = None
    /\ re_token # <<>>
    /\ re_out' = Some([company |-> is_match(ExcludeRegex(re_token).company, re_subject),
                       email |-> is_match(ExcludeRegex(re_token).email, re_subject)])
    /\ UNCHANGED <<re_token, re_subject>>

----------------------------------------------------------------------------
(* process_contributions *)

ProcIdle ==
    /\ cfg = <<>> /\ input = <<>> /\ by_user = EmptyMap /\ todo = {}
    /\ outputs = <<>> /\ calls = <<>> /\ trace = <<>> /\ pc = "idle"
    /\ result = None

InitProc(configs) ==
    /\ cfg \in configs
    /\ input \in Inputs
    /\ by_user = EmptyMap
    /\ todo = {}
    /\ outputs = <<>>
    /\ calls = <<>>
    /\ trace = <<>>
    /\ pc = "start"
    /\ result = None

\* contributions_by_user(contributions), before the for loop starts
GroupContributions ==
    /\ pc = "start"
    /\ by_user' = contributions_by_user(input)
    /\ todo' = DOMAIN contributions_by_user(input)
    /\ pc' = "loop"
    /\ UNCHANGED <<cfg, input, outputs, calls, trace, result>>

\* the answer to GET /users/{login}, if the loop body asked
asked_profile(st, profile) ==
    IF \E i \in DOMAIN st.calls : st.calls[i].op = "get_user"
    THEN Some(profile) ELSE None

\* the answers of the organizations the loop body asked, in order
asked_memberships(st, memberships) ==
    SubSeq(memberships, 1,
           Cardinality({ i \in DOMAIN st.calls :
                           st.calls[i].op = "check_membership" }))

\* what every organization would answer, if check_membership was entered
reached_memberships(st, memberships) ==
    IF \E i \in DOMAIN st.stages : st.stages[i] = "check_membership"
    THEN memberships ELSE <<>>

Visited(key, group, st, profile, memberships) ==
    [key |-> key, group |-> group, outcome |-> st.outcome, calls |-> st.calls,
     user |-> st.user, membership |-> st.membership,
     contributions |-> st.contributions, stages |-> st.stages,
     error |-> st.error,
     profile |-> asked_profile(st, profile),
     memberships |-> asked_memberships(st, memberships),
     answers |-> reached_memberships(st, memberships)]

\* one iteration of the for loop over the HashMap, in the map's arbitrary order;
\* an error ends the stream and the collect
ProcessGroup ==
    /\ pc = "loop"
    /\ \E key \in todo :
       \E profile \in ProfileResponses(key) :
       \E memberships \in MembershipResponses(cfg.company_orgs) :
          LET st == loop_body(cfg, key, by_user[key], profile, memberships)
          IN  /\ todo' = todo \ {key}
              /\ calls' = calls \o st.calls
              /\ trace' = Append(trace, Visited(key, by_user[key], st,
                                               profile, memberships))
              /\ outputs' =
                    IF st.outcome = "yield"
                    THEN Append(outputs,
                                Output(st.user, st.membership, st.contributions))
                    ELSE outputs
              /\ pc' = IF st.outcome = "error" THEN "done" ELSE "loop"
              /\ result' =
                    IF st.outcome = "error" THEN Some(Err(Unwrap(st.error)))
                    ELSE result
    /\ UNCHANGED <<cfg, input, by_user>>

\* .collect::<Result<Vec<Output>, _>>() of a stream that ended without error
Collect ==
    /\ pc = "loop"
    /\ todo = {}
    /\ result' = Some(Ok(outputs))
    /\ pc' = "done"
    /\ UNCHANGED <<cfg, input, by_user, todo, outputs, calls, trace>>

----------------------------------------------------------------------------
(* Pagination walker: process_pages and retry_get_page *)

\* a Page<T>: its items and the url of the next page, if any
Page(items, next) == [items |-> items, next |-> next]

\* page i of a paginated resource; its next link is i + 1 while there is one
PageAt(chain, i) ==
    Page(chain[i], IF i < Len(chain) THEN Some(i + 1) ELSE None)

\* what client.get_page(url) can return: Ok(None) without a request when there
\* is no url, else the page or one of the errors
PageResponses(chain, url, errors) ==
    IF url = None THEN { Ok(None) }
    ELSE { Ok(Some(PageAt(chain, Unwrap(url)))) } \cup { Err(e) : e \in errors }

Walker(page, items, tries_left, failed, last_error, wpc, wresult) ==
    [page |-> page, items |-> items, tries_left |-> tries_left,
     failed |-> failed, last_error |-> last_error, pc |-> wpc,
     result |-> wresult]

WalkerIdle == Walker(Page(<<>>, None), <<>>, 0, <<>>, None, "idle", None)

\* one count of failed attempts per next-page request that has a url
new_fetch(failed, page) ==
    IF IsSome(page.next) THEN Append(failed, 0) ELSE failed

\* process_pages up to its first await: the first page's items are taken and
\* retry_get_page(&page.next, MAX_TRIES) is entered
walker_start(page) ==
    Walker(Page(<<>>, page.next), page.items, MAX_TRIES,
           new_fetch(<<>>, page), None, "fetch", None)

\* faulty variant, for sensitivity analysis: one retry fewer
should_retry_strict(is_err, tries_left) == is_err /\ tries_left > 2

\* faulty variant, for sensitivity analysis: one retry more
should_retry_once_more(is_err, tries_left) == is_err /\ tries_left >= 1

\* result.is_err() && tries_left >= 2
should_retry(is_err, tries_left) == is_err /\ tries_left >= 2

\* one client.get_page(url).await in retry_get_page and what follows it up to
\* the next await or the return of process_pages
walker_attempt(w, response) ==
    IF should_retry(~response.ok, w.tries_left)
    THEN [w EXCEPT !.tries_left = w.tries_left - 1,
                   !.failed[Len(w.failed)] = w.failed[Len(w.failed)] + 1,
                   !.last_error = Some(response.error)]
    ELSE IF ~response.ok
         THEN [w EXCEPT !.failed[Len(w.failed)] = w.failed[Len(w.failed)] + 1,
                        !.last_error = Some(response.error),
                        !.pc = "done",
                        !.result = Some(Err(response.error))]
         ELSE IF IsSome(response.value)
              THEN Walker(Page(<<>>, Unwrap(response.value).next),
                          w.items \o Unwrap(response.value).items,
                          MAX_TRIES,
                          new_fetch(w.failed, Unwrap(response.value)),
                          None, "fetch", None)
              ELSE [w EXCEPT !.last_error = None,
                             !.pc = "done",
                             !.result = Some(Ok(w.items))]

Item(page, n) == [page |-> page, n |-> n]

\* every chain of 1..MaxPages pages of 0..MaxItems items, all items distinct
Chains ==
    { [p \in 1..Len(sizes) |-> [n \in 1..sizes[p] |-> Item(p, n)]] :
        sizes \in UNION { [1..k -> 0..MaxItems] : k \in 1..MaxPages } }

PageErrors == { OtherError, GitHubError(UNRELATED_DOC_URL) }

PagesIdle == pw_chain = <<>> /\ pw = WalkerIdle

InitPages ==
    /\ pw_chain \in Chains
    /\ pw = walker_start(PageAt(pw_chain, 1))

\* the platform answers the pending get_page
WalkerFetch ==
    /\ pw.pc = "fetch"
    /\ \E response \in PageResponses(pw_chain, pw.page.next, PageErrors) :
          pw' = walker_attempt(pw, response)
    /\ UNCHANGED pw_chain

----------------------------------------------------------------------------
(* Collector: contributions(repo), issues, reviews, commits *)

Task(tpc, walker, pulls, pr, acc, tresult) ==
    [pc |-> tpc, walker |-> walker, pulls |-> pulls, pr |-> pr, acc |-> acc,
     result |-> tresult]

TaskNew == Task("first", WalkerIdle, <<>>, 0, <<>>, None)

\* a completed future; pr is the pull request review_stream was at, if any
TaskDoneAt(tresult, pr) == Task("done", WalkerIdle, <<>>, pr, <<>>, Some(tresult))

TaskDone(tresult) == TaskDoneAt(tresult, 0)

\* faulty variant, for sensitivity analysis: every platform error is downgraded
first_page_any_marker(response, doc_url) ==
    IF response.ok THEN Ok(Some(response.value))
    ELSE IF response.error.variant = "GitHub" THEN Ok(None)
         ELSE Err(response.error)

\* issues_page / pull_request_page / commit_page: the first page, or None when
\* the error carries the listing's own documentation_url
first_page(response, doc_url) ==
    IF response.ok THEN Ok(Some(response.value))
    ELSE IF response.error.variant = "GitHub"
         THEN IF response.error.documentation_url = doc_url
              THEN Ok(None)
              ELSE Err(response.error)
         ELSE Err(response.error)

\* issues() and commits() at the await of their first page
listing_first(response, doc_url) ==
    LET got == first_page(response, doc_url)
    IN  IF ~got.ok THEN TaskDone(Err(got.error))
        ELSE IF IsSome(got.value)
             THEN Task("pages", walker_start(Unwrap(got.value)), <<>>, 0, <<>>, None)
             ELSE TaskDone(Ok(<<>>))

\* issues() and commits() at an await inside process_pages
listing_pages(task, response) ==
    LET w == walker_attempt(task.walker, response)
    IN  IF w.pc = "done" THEN TaskDone(Unwrap(w.result))
        ELSE [task EXCEPT !.walker = w]

\* review_stream before the next pull request, or its collect and flatten
reviews_next(pulls, pr, acc) ==
    IF pr > Len(pulls) THEN TaskDoneAt(Ok(acc), Len(pulls))
    ELSE Task("list_reviews", WalkerIdle, pulls, pr, acc, None)

\* reviews() at an await inside the process_pages of the pull requests
reviews_pull_pages(task, response) ==
    LET w == walker_attempt(task.walker, response)
    IN  IF w.pc # "done" THEN [task EXCEPT !.walker = w]
        ELSE IF ~Unwrap(w.result).ok THEN TaskDone(Unwrap(w.result))
        ELSE reviews_next(Unwrap(w.result).value, 1, <<>>)

\* review_stream at pull_handler.list_reviews(number).await?
reviews_list(task, response) ==
    IF ~response.ok THEN TaskDoneAt(Err(response.error), task.pr)
    ELSE [task EXCEPT !.pc = "review_pages",
                      !.walker = walker_start(response.value)]

\* review_stream at an await inside process_pages(&client, page).await?
reviews_review_pages(task, response) ==
    LET w == walker_attempt(task.walker, response)
    IN  IF w.pc # "done" THEN [task EXCEPT !.walker = w]
        ELSE IF ~Unwrap(w.result).ok THEN TaskDoneAt(Unwrap(w.result), task.pr)
        ELSE reviews_next(task.pulls, task.pr + 1,
                          task.acc \o Unwrap(w.result).value)

\* Contribution::new(&repo.org, &repo.name, item.into()) over a list
into_contributions(repo, items) ==
    [i \in 1..Len(items) |-> Contribution(repo, items[i].payload, items[i].uid)]

\* faulty variant, for sensitivity analysis: the reviews are left out of the chain
collect_without_reviews(repo, issues, reviews, commits) ==
    IF ~issues.ok THEN Err(issues.error)
    ELSE IF ~commits.ok THEN Err(commits.error)
    ELSE Ok(into_contributions(repo, issues.value)
            \o into_contributions(repo, commits.value))

\* issues?.chain(reviews?).chain(commits?).collect()
collect_contributions(repo, issues, reviews, commits) ==
    IF ~issues.ok THEN Err(issues.error)
    ELSE IF ~reviews.ok THEN Err(reviews.error)
    ELSE IF ~commits.ok THEN Err(commits.error)
    ELSE Ok(into_contributions(repo, issues.value)
            \o into_contributions(repo, reviews.value)
            \o into_contributions(repo, commits.value))

\* tokio::join! completes when all three futures have completed
join_ready(issues, reviews, commits) ==
    issues.pc = "done" /\ reviews.pc = "done" /\ commits.pc = "done"

Fetchable(payload, uid) == [payload |-> payload, uid |-> uid]

PullRequest(number) == [number |-> number]

I1 == Fetchable(Issue(alice, 1), "i1")
I2 == Fetchable(Issue(bob, 1), "i2")
K1 == Fetchable(Commit(None, 1), "c1")
K2 == Fetchable(Commit(Some(bob), 1), "c2")
V1 == Fetchable(Review(alice, Some(1)), "r1")
V2 == Fetchable(Review(bob, None), "r2")
V3 == Fetchable(Review(alice_later, Some(1)), "r3")

World(issues, pulls, reviews, commits) ==
    [issues |-> issues, pulls |-> pulls, reviews |-> reviews, commits |-> commits]

\* the reviews of pull request 1 are one page, those of pull request 2 two
ReviewChains == <<  << <<V1>> >>,  << <<V2>>, <<V3>> >>  >>

Worlds ==
    { World(i, p, ReviewChains, k) :
        i \in { << <<I1>> >>, << <<I1>>, <<I2>> >> },
        p \in { << <<>> >>, << <<PullRequest(1), PullRequest(2)>> >> },
        k \in { << <<K1, K2>> >>, << <<>>, <<K1>> >> } }

\* errors of a first listing: its own documented cause, another one, transport
ListingErrors(doc_url) ==
    { GitHubError(doc_url), GitHubError(UNRELATED_DOC_URL), OtherError }
    \cup { GitHubError(u) : u \in {ISSUES_DOC_URL, PULLS_DOC_URL, COMMITS_DOC_URL} }

NextPageErrors == { OtherError }

FirstResponses(chain, doc_url) ==
    { Ok(PageAt(chain, 1)) } \cup { Err(e) : e \in ListingErrors(doc_url) }

\* no listing request has been answered yet
NoFirst == [issues |-> None, reviews |-> None, commits |-> None]

CollectIdle ==
    /\ co_world = <<>> /\ co_issues = TaskDone(Ok(<<>>))
    /\ co_reviews = TaskDone(Ok(<<>>)) /\ co_commits = TaskDone(Ok(<<>>))
    /\ co_result = Some(Ok(<<>>))
    /\ co_first = NoFirst

InitCollect ==
    /\ co_world \in Worlds
    /\ co_issues = TaskNew
    /\ co_reviews = TaskNew
    /\ co_commits = TaskNew
    /\ co_result = None
    /\ co_first = NoFirst

\* the issues future advances past one await
IssuesStep ==
    /\ co_issues.pc # "done"
    /\ \/ /\ co_issues.pc = "first"
          /\ \E response \in FirstResponses(co_world.issues, ISSUES_DOC_URL) :
                /\ co_issues' = listing_first(response, ISSUES_DOC_URL)
                /\ co_first' = [co_first EXCEPT !.issues = Some(response)]
       \/ /\ co_issues.pc = "pages"
          /\ \E response \in PageResponses(co_world.issues,
                                           co_issues.walker.page.next, NextPageErrors) :
                /\ co_issues' = listing_pages(co_issues, response)
                /\ UNCHANGED co_first
    /\ UNCHANGED <<co_world, co_reviews, co_commits, co_result>>

\* the commits future advances past one await
CommitsStep ==
    /\ co_commits.pc # "done"
    /\ \/ /\ co_commits.pc = "first"
          /\ \E response \in FirstResponses(co_world.commits, COMMITS_DOC_URL) :
                /\ co_commits' = listing_first(response, COMMITS_DOC_URL)
                /\ co_first' = [co_first EXCEPT !.commits = Some(response)]
       \/ /\ co_commits.pc = "pages"
          /\ \E response \in PageResponses(co_world.commits,
                                           co_commits.walker.page.next, NextPageErrors) :
                /\ co_commits' = listing_pages(co_commits, response)
                /\ UNCHANGED co_first
    /\ UNCHANGED <<co_world, co_issues, co_reviews, co_result>>

\* the reviews future advances past one await
ReviewsStep ==
    /\ co_reviews.pc # "done"
    /\ \/ /\ co_reviews.pc = "first"
          /\ \E response \in FirstResponses(co_world.pulls, PULLS_DOC_URL) :
                /\ co_reviews' = listing_first(response, PULLS_DOC_URL)
                /\ co_first' = [co_first EXCEPT !.reviews = Some(response)]
       \/ /\ co_reviews.pc = "pages"
          /\ \E response \in PageResponses(co_world.pulls,
                                           co_reviews.walker.page.next, NextPageErrors) :
                /\ co_reviews' = reviews_pull_pages(co_reviews, response)
                /\ UNCHANGED co_first
       \/ /\ co_reviews.pc = "list_reviews"
          /\ \E response \in
                { Ok(PageAt(co_world.reviews[co_reviews.pulls[co_reviews.pr].number], 1)) }
                \cup { Err(e) : e \in ListingErrors(PULLS_DOC_URL) } :
                /\ co_reviews' = reviews_list(co_reviews, response)
                /\ UNCHANGED co_first
       \/ /\ co_reviews.pc = "review_pages"
          /\ \E response \in
                PageResponses(co_world.reviews[co_reviews.pulls[co_reviews.pr].number],
                              co_reviews.walker.page.next, NextPageErrors) :
                /\ co_reviews' = reviews_review_pages(co_reviews, response)
                /\ UNCHANGED co_first
    /\ UNCHANGED <<co_world, co_issues, co_commits, co_result>>

\* tokio::join! completes and contributions(repo) returns
Join ==
    /\ co_result = None
    /\ join_ready(co_issues, co_reviews, co_commits)
    /\ co_result' = Some(collect_contributions(R1, Unwrap(co_issues.result),
                                               Unwrap(co_reviews.result),
                                               Unwrap(co_commits.result)))
    /\ UNCHANGED <<co_world, co_issues, co_reviews, co_commits, co_first>>

----------------------------------------------------------------------------
(* main: fetch every tracked repository, aggregate, print the two views *)

MainIdle ==
    /\ m_pc = "idle" /\ m_tasks = <<>> /\ per_repo = EmptyMap
    /\ m_stdout = <<>> /\ m_exit = None

\* faulty variant, for sensitivity analysis: a failed repository is left out
RECURSIVE contributions_stream_skip_failed(_)
contributions_stream_skip_failed(results) ==
    IF results = <<>> THEN Ok(<<>>)
    ELSE LET rest == contributions_stream_skip_failed(Tail(results))
         IN  IF ~Head(results).ok THEN rest
             ELSE Ok(<<Head(results).value>> \o rest.value)

\* contributions_stream(..).collect::<Result<Vec<Vec<Contribution>>, _>>():
\* the stream yields the results of join_all in order and ends at the first Err
RECURSIVE contributions_stream(_)
contributions_stream(results) ==
    IF results = <<>> THEN Ok(<<>>)
    ELSE IF ~Head(results).ok THEN Err(Head(results).error)
    ELSE LET rest == contributions_stream(Tail(results))
         IN  IF ~rest.ok THEN rest
             ELSE Ok(<<Head(results).value>> \o rest.value)

\* .into_iter().flatten()
RECURSIVE flatten(_)
flatten(lists) ==
    IF lists = <<>> THEN <<>> ELSE Head(lists) \o flatten(Tail(lists))

\* outputs.retain(|output| !output.membership)
retain_non_members(outs) == SelectSeq(outs, LAMBDA o : ~o.membership)

\* the place a stable descending sort by contributions.len() gives to o
RECURSIVE insert_by_len(_, _)
insert_by_len(sorted, o) ==
    IF sorted = <<>> THEN <<o>>
    ELSE IF Len(Head(sorted).contributions) >= Len(o.contributions)
         THEN <<Head(sorted)>> \o insert_by_len(Tail(sorted), o)
         ELSE <<o>> \o sorted

\* outputs.sort_by(|a, b| b.contributions.len().partial_cmp(&a.contributions.len()))
RECURSIVE sort_by(_)
sort_by(outs) ==
    IF outs = <<>> THEN <<>>
    ELSE insert_by_len(sort_by(SubSeq(outs, 1, Len(outs) - 1)), outs[Len(outs)])

\* the three counters of a table row
count_kind(contributions, kind) ==
    Cardinality({ i \in DOMAIN contributions :
                    contributions[i].contribution.kind = kind })

Row(label, contributions) ==
    [line |-> "row", label |-> label,
     issues |-> count_kind(contributions, "Issue"),
     reviews |-> count_kind(contributions, "Review"),
     commits |-> count_kind(contributions, "Commit"),
     all |-> Len(contributions)]

TotalLine(n) == [line |-> "total", all |-> n]

\* the column titles: "handle" or "repo", then issues, reviews, commits, all
HeaderLine(first) ==
    [line |-> "header",
     columns |-> <<first, "issues", "reviews", "commits", "all">>]

\* println!("--")
SeparatorLine == [line |-> "--"]

\* output.user.as_ref().map(|u| u.inner.login.as_str()).unwrap_or("None")
handle(output) ==
    IF IsSome(output.user) THEN Unwrap(output.user).inner.login ELSE "None"

\* .fold(0, |sum, x| sum + x.len())
RECURSIVE fold_len(_)
fold_len(lists) ==
    IF lists = <<>> THEN 0 ELSE Len(Head(lists)) + fold_len(Tail(lists))

\* the first table: the header, one row per reported Output and the total
author_table(outs) ==
    <<HeaderLine("handle")>>
    \o [i \in 1..Len(outs) |-> Row(handle(outs[i]), outs[i].contributions)]
    \o <<TotalLine(fold_len([i \in 1..Len(outs) |-> outs[i].contributions]))>>

\* faulty variant, for sensitivity analysis: the buckets are keyed by org alone
RECURSIVE per_repo_fold_by_org(_, _)
per_repo_fold_by_org(cs, m) ==
    IF cs = <<>> THEN m
    ELSE per_repo_fold_by_org(Tail(cs),
                              push_entry(m, Repo(Head(cs).repo.org, ""), Head(cs)))

\* the for loop that fills per_repo from outputs.iter().flat_map(..)
RECURSIVE per_repo_fold(_, _)
per_repo_fold(cs, m) ==
    IF cs = <<>> THEN m
    ELSE per_repo_fold(Tail(cs), push_entry(m, Head(cs).repo, Head(cs)))

regroup(outs) ==
    per_repo_fold(flatten([i \in 1..Len(outs) |-> outs[i].contributions]),
                  EmptyMap)

\* the orders in which per_repo.iter() can visit the buckets
IterOrders(m) ==
    { order \in [1..Cardinality(DOMAIN m) -> DOMAIN m] :
        \A i, j \in DOMAIN order : i # j => order[i] # order[j] }

\* the second table, for one iteration order of the HashMap
repo_table(m, order) ==
    <<HeaderLine("repo")>>
    \o [i \in 1..Len(order) |-> Row(order[i], m[order[i]])]
    \o <<TotalLine(fold_len([i \in 1..Len(order) |-> m[order[i]]]))>>

\* runs of main: the tracked repositories, the organizations, the window
RunConfigs ==
    { Config(o, r, <<>>, <<>>, Some(1), Some(2)) :
        o \in { <<>>, <<S_heroku>> },
        r \in { <<ConfigRepo(R1, <<S_Acme>>)>>,
                <<ConfigRepo(R1, <<>>), ConfigRepo(R2, <<S_Acme>>)>> } }

\* what contributions(repo) can return for each tracked repository: the
\* repository's part of some set of records, or an error
TaskResults(repos) ==
    { [i \in 1..Len(repos) |->
         IF i \in failing THEN Err(OtherError)
         ELSE Ok(SelectSeq(records, LAMBDA c : c.repo = repos[i].repo))] :
        records \in Inputs, failing \in SUBSET (1..Len(repos)) }

InitMain ==
    /\ cfg \in RunConfigs
    /\ input = <<>> /\ by_user = EmptyMap /\ todo = {}
    /\ outputs = <<>> /\ calls = <<>> /\ trace = <<>> /\ pc = "idle"
    /\ result = None
    /\ m_pc = "fetch" /\ m_tasks = <<>> /\ per_repo = EmptyMap
    /\ m_stdout = <<>> /\ m_exit = None

\* join_all(tasks).await, the collect of the stream and its `?`; on success
\* process_contributions is entered with the flattened contributions
FetchRepos ==
    /\ m_pc = "fetch"
    /\ \E results \in TaskResults(cfg.repos) :
          LET collected == contributions_stream(results)
          IN  /\ m_tasks' = results
              /\ IF collected.ok
                 THEN /\ input' = flatten(collected.value)
                      /\ pc' = "start"
                      /\ m_pc' = "process"
                      /\ m_exit' = None
                 ELSE /\ input' = input
                      /\ pc' = pc
                      /\ m_pc' = "exit"
                      /\ m_exit' = Some(Err(collected.error))
    /\ UNCHANGED <<cfg, by_user, todo, outputs, calls, trace, result,
                   per_repo, m_stdout>>

\* process_contributions has returned: `?`, then retain, sort and both tables
Report ==
    /\ m_pc = "process"
    /\ pc = "done"
    /\ IF Unwrap(result).ok
       THEN LET reported == sort_by(retain_non_members(Unwrap(result).value))
            IN  /\ per_repo' = regroup(reported)
                /\ \E order \in IterOrders(regroup(reported)) :
                      m_stdout' = author_table(reported)
                                  \o <<SeparatorLine>>
                                  \o repo_table(regroup(reported), order)
                /\ m_exit' = Some(Ok(<<>>))
       ELSE /\ per_repo' = per_repo
            /\ m_stdout' = m_stdout
            /\ m_exit' = Some(Err(Unwrap(result).error))
    /\ m_pc' = "exit"
    /\ UNCHANGED <<procVars, m_tasks>>

----------------------------------------------------------------------------
(* Specifications *)

Init == InitProc(FilterConfigs) /\ RegexIdle /\ PagesIdle /\ CollectIdle /\ MainIdle

Next ==
    \/ GroupContributions /\ UNCHANGED <<regexVars, pageVars, collectVars, mainVars>>
    \/ ProcessGroup /\ UNCHANGED <<regexVars, pageVars, collectVars, mainVars>>
    \/ Collect /\ UNCHANGED <<regexVars, pageVars, collectVars, mainVars>>

\* process_contributions over runs that vary the repositories and the window
Spec == Init /\ [][Next]_vars

InitPolicy == InitProc(PolicyConfigs) /\ RegexIdle /\ PagesIdle /\ CollectIdle /\ MainIdle

\* process_contributions over runs that vary organizations, overrides, excludes
SpecPolicy == InitPolicy /\ [][Next]_vars

InitMembership ==
    /\ cfg \in MembershipConfigs
    /\ input \in MembershipInputs
    /\ by_user = EmptyMap /\ todo = {} /\ outputs = <<>> /\ calls = <<>>
    /\ trace = <<>> /\ pc = "start" /\ result = None
    /\ RegexIdle /\ PagesIdle /\ CollectIdle /\ MainIdle

\* process_contributions over runs that vary the company organizations
SpecMembership == InitMembership /\ [][Next]_vars

InitR == ProcIdle /\ InitRegex /\ PagesIdle /\ CollectIdle /\ MainIdle

NextR == MatchPatterns /\ UNCHANGED <<procVars, pageVars, collectVars, mainVars>>

\* the exclusion patterns of one companies_exclude entry on one string
SpecRegex == InitR /\ [][NextR]_vars

InitW == ProcIdle /\ RegexIdle /\ InitPages /\ CollectIdle /\ MainIdle

NextW == WalkerFetch /\ UNCHANGED <<procVars, regexVars, collectVars, mainVars>>

\* process_pages over one paginated resource
SpecPages == InitW /\ [][NextW]_vars

InitC == ProcIdle /\ RegexIdle /\ PagesIdle /\ InitCollect /\ MainIdle

NextC ==
    \/ IssuesStep /\ UNCHANGED <<procVars, regexVars, pageVars, mainVars>>
    \/ ReviewsStep /\ UNCHANGED <<procVars, regexVars, pageVars, mainVars>>
    \/ CommitsStep /\ UNCHANGED <<procVars, regexVars, pageVars, mainVars>>
    \/ Join /\ UNCHANGED <<procVars, regexVars, pageVars, mainVars>>

\* contributions(repo) for one repository
SpecCollect == InitC /\ [][NextC]_vars

InitM == InitMain /\ RegexIdle /\ PagesIdle /\ CollectIdle

NextM ==
    \/ FetchRepos /\ UNCHANGED <<regexVars, pageVars, collectVars>>
    \/ GroupContributions /\ UNCHANGED <<regexVars, pageVars, collectVars, mainVars>>
    \/ ProcessGroup /\ UNCHANGED <<regexVars, pageVars, collectVars, mainVars>>
    \/ Collect /\ UNCHANGED <<regexVars, pageVars, collectVars, mainVars>>
    \/ Report /\ UNCHANGED <<regexVars, pageVars, collectVars>>

\* main: one whole run of the program
SpecMain == InitM /\ [][NextM]_vars

----------------------------------------------------------------------------
(* Properties of process_contributions *)

Range(seq) == { seq[i] : i \in DOMAIN seq }

\* the groups whose iteration reached the end of the loop body
Finished(tr) == tr.outcome \in {"yield", "skip_empty"}

\* the window as the specification states it
InWindow(c) ==
    \/ created_at(c) = None
    \/ /\ (cfg.since = None \/ Unwrap(created_at(c)) >= Unwrap(cfg.since))
       /\ (cfg.until = None \/ Unwrap(created_at(c)) < Unwrap(cfg.until))

\* some rule of some configured entry for the contribution's repo matches the
\* author's company or email
ExcludedByRule(c, maybe_enriched) ==
    /\ IsSome(maybe_enriched)
    /\ \E i \in DOMAIN cfg.repos :
          /\ cfg.repos[i].repo = c.repo
          /\ \E j \in DOMAIN cfg.repos[i].companies_exclude :
                \/ /\ IsSome(Unwrap(maybe_enriched).company)
                   /\ is_match(CompanyRegex(cfg.repos[i].companies_exclude[j]),
                               Unwrap(Unwrap(maybe_enriched).company))
                \/ /\ IsSome(Unwrap(maybe_enriched).email)
                   /\ is_match(EmailRegex(cfg.repos[i].companies_exclude[j]),
                               Unwrap(Unwrap(maybe_enriched).email))

\* C1: a contribution that the explicit-exclude and per-repository exclusion
\* stages do not remove is in its group's Output iff it has no created_at or
\* since <= created_at < until, whatever the configured repositories and
\* whether or not the group has an author.
C1_DateRangeEverywhere ==
    \A n \in DOMAIN trace :
        Finished(trace[n]) =>
            \A c \in Range(trace[n].group) :
                ~ExcludedByRule(c, trace[n].user) =>
                    (c \in Range(trace[n].contributions) <=> InWindow(c))

\* C2: no Output has an empty contribution list, in the stream and in the
\* returned vector, and the Outputs are exactly the groups that were not
\* skipped and kept at least one contribution.
C2_NoEmptyOutput ==
    /\ \A i \in DOMAIN outputs : Len(outputs[i].contributions) > 0
    /\ (IsSome(result) /\ Unwrap(result).ok) =>
          \A i \in DOMAIN Unwrap(result).value :
              Len(Unwrap(result).value[i].contributions) > 0
    /\ Len(outputs) =
          Cardinality({ n \in DOMAIN trace :
                          Finished(trace[n]) /\ trace[n].contributions # <<>> })

\* a group with an author whose contributions were all filtered away, in a run
\* that returned Ok
C2_Witness ==
    /\ pc = "done"
    /\ IsSome(result) /\ Unwrap(result).ok
    /\ \E n \in DOMAIN trace :
          /\ IsSome(trace[n].key)
          /\ trace[n].outcome = "skip_empty"
          /\ Len(trace[n].group) = 2
          /\ \A i \in DOMAIN outputs : outputs[i].user # trace[n].user

\* the id of an Output's author
output_user_id(o) ==
    IF IsSome(o.user) THEN Some(Unwrap(o.user).inner.id) ELSE None

\* C3: grouping is a partition of the input by author id: two contributions
\* share a group iff their authors' ids are equal (absent equals absent), each
\* contribution is in exactly one group, in at most one Output, and no two
\* Outputs have the same author id.
C3_PartitionById ==
    pc # "start" =>
        /\ \A i, j \in DOMAIN input :
              (\E k \in DOMAIN by_user : {input[i], input[j]} \subseteq Range(by_user[k]))
                 <=> (user_id(user(input[i])) = user_id(user(input[j])))
        /\ \A i \in DOMAIN input :
              Cardinality({ kn \in { <<k, n>> : k \in DOMAIN by_user, n \in DOMAIN input } :
                              /\ kn[2] \in DOMAIN by_user[kn[1]]
                              /\ by_user[kn[1]][kn[2]] = input[i] }) = 1
        /\ \A i \in DOMAIN input :
              Cardinality({ on \in { <<o, n>> : o \in DOMAIN outputs, n \in DOMAIN input } :
                              /\ on[2] \in DOMAIN outputs[on[1]].contributions
                              /\ outputs[on[1]].contributions[on[2]] = input[i] }) <= 1
        /\ \A a, b \in DOMAIN outputs :
              a # b => output_user_id(outputs[a]) # output_user_id(outputs[b])

\* two contributions of one account with different snapshots share a group and
\* an Output
C3_Witness ==
    /\ pc = "done"
    /\ \E o \in DOMAIN outputs :
       \E a, b \in DOMAIN outputs[o].contributions :
          /\ user(outputs[o].contributions[a]) = Some(alice)
          /\ user(outputs[o].contributions[b]) = Some(alice_later)
    /\ Cardinality(DOMAIN by_user) = 1

\* C4: every contribution without an author is in the one group keyed by None;
\* visiting that group issues no remote call and yields an Output with no
\* author and membership false.
C4_AuthorlessGroup ==
    /\ pc # "start" =>
          \A i \in DOMAIN input :
              user(input[i]) = None =>
                  /\ None \in DOMAIN by_user
                  /\ input[i] \in Range(by_user[None])
    /\ \A n \in DOMAIN trace :
          trace[n].key = None =>
              /\ trace[n].calls = <<>>
              /\ trace[n].outcome = "yield"
              /\ trace[n].user = None
              /\ trace[n].membership = FALSE
              /\ Cardinality({ i \in DOMAIN outputs : outputs[i].user = None }) = 1
              /\ \A i \in DOMAIN outputs :
                    outputs[i].user = None =>
                        /\ outputs[i].membership = FALSE
                        /\ outputs[i].contributions # <<>>
                        /\ Range(outputs[i].contributions) \subseteq Range(trace[n].group)

\* two different authorless commits reported in one Output, in a run with a
\* window and tracked repositories that returned Ok
C4_Witness ==
    /\ pc = "done"
    /\ IsSome(result) /\ Unwrap(result).ok
    /\ cfg.repos # <<>>
    /\ \E i \in DOMAIN outputs :
          /\ outputs[i].user = None
          /\ outputs[i].membership = FALSE
          /\ Len(outputs[i].contributions) = 2
          /\ outputs[i].contributions[1].contribution
                # outputs[i].contributions[2].contribution

\* the companies configured as an override for a login
OverrideCompanies(login) ==
    { cfg.user_overrides[i].company :
        i \in { j \in DOMAIN cfg.user_overrides : cfg.user_overrides[j].login = login } }

HasOverride(login) == OverrideCompanies(login) # {}

ExcludedLogin(login) == \E i \in DOMAIN cfg.users_exclude : cfg.users_exclude[i] = login

\* C5: for a group whose login has an override (and is not on the exclude
\* list) no profile fetch and no membership check is issued for that login,
\* and the author has the override's company and no email.
C5_OverrideNoCalls ==
    /\ \A n \in DOMAIN trace :
          (/\ IsSome(trace[n].key)
           /\ HasOverride(Unwrap(trace[n].key).login)
           /\ ~ExcludedLogin(Unwrap(trace[n].key).login)) =>
              /\ trace[n].calls = <<>>
              /\ Finished(trace[n])
              /\ IsSome(trace[n].user)
              /\ Unwrap(trace[n].user).inner = Unwrap(trace[n].key)
              /\ IsSome(Unwrap(trace[n].user).company)
              /\ Unwrap(Unwrap(trace[n].user).company)
                    \in OverrideCompanies(Unwrap(trace[n].key).login)
              /\ Unwrap(trace[n].user).email = None
    /\ \A i \in DOMAIN calls : ~HasOverride(calls[i].login)
    /\ \A i \in DOMAIN outputs :
          (IsSome(outputs[i].user) /\ HasOverride(Unwrap(outputs[i].user).inner.login)) =>
              /\ Unwrap(outputs[i].user).email = None
              /\ IsSome(Unwrap(outputs[i].user).company)
              /\ Unwrap(Unwrap(outputs[i].user).company)
                    \in OverrideCompanies(Unwrap(outputs[i].user).inner.login)

\* an override author reported next to an author that was fetched
C5_Witness ==
    /\ pc = "done"
    /\ IsSome(result) /\ Unwrap(result).ok
    /\ \E i \in DOMAIN outputs :
          /\ IsSome(outputs[i].user)
          /\ HasOverride(Unwrap(outputs[i].user).inner.login)
    /\ \E i \in DOMAIN calls : calls[i].op = "get_user"

\* C6: a group whose login is on the exclude list is dropped by the first
\* check of the loop body: no Output, no remote call for the login, no
\* enrichment, membership or filter stage, override or not.
C6_ExcludedDropped ==
    /\ \A n \in DOMAIN trace :
          (IsSome(trace[n].key) /\ ExcludedLogin(Unwrap(trace[n].key).login)) =>
              /\ trace[n].outcome = "skip_excluded"
              /\ trace[n].calls = <<>>
              /\ trace[n].stages = <<"exclude_check">>
    /\ \A i \in DOMAIN calls : ~ExcludedLogin(calls[i].login)
    /\ \A i \in DOMAIN outputs :
          IsSome(outputs[i].user) => ~ExcludedLogin(Unwrap(outputs[i].user).inner.login)

\* an excluded login that also has an override, with an in-window contribution
\* on a repository whose rules do not match, dropped in a run that returned Ok
C6_Witness ==
    /\ pc = "done"
    /\ IsSome(result) /\ Unwrap(result).ok
    /\ \E n \in DOMAIN trace :
          /\ trace[n].outcome = "skip_excluded"
          /\ HasOverride(Unwrap(trace[n].key).login)
          /\ \E c \in Range(trace[n].group) : InWindow(c)

\* C7: in a group with a profile, a contribution inside the window is dropped
\* iff some configured entry for its repo has a rule that matches the author's
\* company or email; so never when its repo has no rule or the author has
\* neither company nor email.
C7_RepoExclusion ==
    \A n \in DOMAIN trace :
        (Finished(trace[n]) /\ IsSome(trace[n].user)) =>
            \A c \in Range(trace[n].group) :
                /\ InWindow(c) =>
                      (c \notin Range(trace[n].contributions)
                         <=> ExcludedByRule(c, trace[n].user))
                /\ (c \notin Range(trace[n].contributions) /\ InWindow(c)) =>
                      /\ \E i \in DOMAIN cfg.repos :
                            /\ cfg.repos[i].repo = c.repo
                            /\ cfg.repos[i].companies_exclude # <<>>
                      /\ \/ IsSome(Unwrap(trace[n].user).company)
                         \/ IsSome(Unwrap(trace[n].user).email)

\* one author, matched through the email only: the contribution on the repo
\* with rules is dropped, the one on the repo without rules is kept
C7_Witness ==
    \E n \in DOMAIN trace :
        /\ trace[n].outcome = "yield"
        /\ IsSome(trace[n].user)
        /\ Unwrap(trace[n].user).company = Some(S_Initech)
        /\ Len(cfg.repos) = 1
        /\ \E c \in Range(trace[n].group) :
              InWindow(c) /\ c \notin Range(trace[n].contributions)
        /\ \E c \in Range(trace[n].group) :
              c.repo = R2 /\ c \in Range(trace[n].contributions)

----------------------------------------------------------------------------
(* Properties of the exclusion patterns *)

\* s contains tok, letters compared without case
ContainsNoCase(s, tok) ==
    \E i \in 1..(Len(s) + 1) :
        /\ i + Len(tok) - 1 <= Len(s)
        /\ \A k \in 1..Len(tok) : Fold(s[i + k - 1]) = Fold(tok[k])

\* after an '@', s has tok (letters compared without case) right after an '@'
\* or a '.', and a '.' right after it
DomainComponentNoCase(s, tok) ==
    \E a \in 1..Len(s) :
        /\ s[a] = "@"
        /\ \E i \in (a + 1)..(Len(s) + 1) :
              /\ s[i - 1] \in {"@", "."}
              /\ i + Len(tok) <= Len(s)
              /\ \A k \in 1..Len(tok) : Fold(s[i + k - 1]) = Fold(tok[k])
              /\ s[i + Len(tok)] = "."

\* C8: the company pattern matches the strings that contain the token without
\* regard to case; the email pattern matches exactly the emails whose domain
\* has the token as a component that starts after '@' or '.' and ends at a
\* '.'.  For "Acme": company "ACME Corp" and email "user@mail.acme.com" match,
\* email "user@notacme.com" does not.
C8_PatternsAsSpecified ==
    IsSome(re_out) =>
        /\ Unwrap(re_out).company = ContainsNoCase(re_subject, re_token)
        /\ Unwrap(re_out).email = DomainComponentNoCase(re_subject, re_token)

----------------------------------------------------------------------------
(* Properties of the pagination walker *)

RECURSIVE Flatten(_)
Flatten(seqs) == IF seqs = <<>> THEN <<>> ELSE Head(seqs) \o Flatten(Tail(seqs))

\* the index of the page process_pages holds
CurrentPage == IF pw.page.next = None THEN Len(pw_chain) ELSE Unwrap(pw.page.next) - 1

\* C9: when every next-page request succeeds within the retry bound,
\* process_pages ends on the page without a next link and returns the items of
\* all pages once each, page after page and in each page's order; a failed
\* attempt neither repeats nor loses an item.
C9_AllPagesInOrder ==
    /\ pw.pc = "fetch" =>
          pw.items = Flatten(SubSeq(pw_chain, 1, CurrentPage))
    /\ pw.pc = "done" =>
          /\ Unwrap(pw.result).ok <=> (\A i \in DOMAIN pw.failed : pw.failed[i] < MAX_TRIES)
          /\ Unwrap(pw.result).ok =>
                /\ pw.page.next = None
                /\ Unwrap(pw.result).value = Flatten(pw_chain)
                /\ \A a, b \in DOMAIN Unwrap(pw.result).value :
                      a # b => Unwrap(pw.result).value[a] # Unwrap(pw.result).value[b]

\* three pages with items; the request for page 2 failed twice and then
\* succeeded, the one for page 3 succeeded at once
C9_Witness ==
    /\ pw.pc = "done"
    /\ Len(pw_chain) = 3
    /\ \A p \in 1..3 : Len(pw_chain[p]) > 0
    /\ pw.failed = <<2, 0>>
    /\ Unwrap(pw.result) = Ok(Flatten(pw_chain))

----------------------------------------------------------------------------
(* Properties of the collector *)

Uids(items) == [i \in 1..Len(items) |-> items[i].uid]

\* every review of every pull request of the world, in pull request order
AllReviews ==
    Flatten([i \in 1..Len(Flatten(co_world.pulls)) |->
                Flatten(co_world.reviews[Flatten(co_world.pulls)[i].number])])

\* C10: contributions(repo) returns only after all three fetches have
\* completed (none is cancelled); it returns Ok iff all three succeeded, and
\* then holds one Contribution tagged with the repo per fetched issue, review
\* and commit; if any fetch failed, a single pull request's reviews included,
\* it returns an error and no contribution.
C10_AllThreeOrError ==
    IsSome(co_result) =>
        /\ co_issues.pc = "done" /\ co_reviews.pc = "done" /\ co_commits.pc = "done"
        /\ Unwrap(co_result).ok <=>
              /\ Unwrap(co_issues.result).ok
              /\ Unwrap(co_reviews.result).ok
              /\ Unwrap(co_commits.result).ok
        /\ Unwrap(co_result).ok =>
              /\ Uids(Unwrap(co_result).value) =
                    Uids(Unwrap(co_issues.result).value)
                    \o Uids(Unwrap(co_reviews.result).value)
                    \o Uids(Unwrap(co_commits.result).value)
              /\ \A i \in DOMAIN Unwrap(co_result).value :
                    Unwrap(co_result).value[i].repo = R1
              /\ Unwrap(co_issues.result).value \in {<<>>, Flatten(co_world.issues)}
              /\ Unwrap(co_reviews.result).value \in {<<>>, AllReviews}
              /\ Unwrap(co_commits.result).value \in {<<>>, Flatten(co_world.commits)}
        /\ ~Unwrap(co_result).ok =>
              /\ DOMAIN Unwrap(co_result) = {"ok", "error"}
              /\ Unwrap(co_result).error
                    \in { Unwrap(t.result).error :
                            t \in { u \in {co_issues, co_reviews, co_commits} :
                                      ~Unwrap(u.result).ok } }

\* issues and commits succeeded with items, the listing of the reviews of the
\* second pull request failed, and the call returned an error
C10_Witness ==
    /\ IsSome(co_result)
    /\ ~Unwrap(co_result).ok
    /\ Unwrap(co_issues.result) = Ok(<<I1, I2>>)
    /\ Unwrap(co_commits.result) = Ok(<<K1>>)
    /\ ~Unwrap(co_reviews.result).ok
    /\ co_reviews.pr = 2

\* all three succeeded: two issues, three reviews of two pull requests, a commit
C10_WitnessOk ==
    /\ IsSome(co_result)
    /\ Unwrap(co_result).ok
    /\ Uids(Unwrap(co_result).value) = <<"i1", "i2", "r1", "r2", "r3", "c1">>

----------------------------------------------------------------------------
(* Properties of the listing downgrade *)

FetchNames == {"issues", "reviews", "commits"}

FetchTask(f) ==
    CASE f = "issues" -> co_issues
      [] f = "reviews" -> co_reviews
      [] f = "commits" -> co_commits

\* the documented-cause marker of the listing each fetch starts with
ListingMarker(f) ==
    CASE f = "issues" -> ISSUES_DOC_URL
      [] f = "reviews" -> PULLS_DOC_URL
      [] f = "commits" -> COMMITS_DOC_URL

FirstFailed(f) == IsSome(co_first[f]) /\ ~Unwrap(co_first[f]).ok

Downgradable(f) ==
    /\ FirstFailed(f)
    /\ Unwrap(co_first[f]).error = GitHubError(ListingMarker(f))

\* C11: a first listing that fails with its own documented-cause marker gives
\* an empty list, and contributions(repo) then fails only if another fetch
\* failed; a first listing that fails with any other marker or in any other
\* way makes the fetch fail with that error and contributions(repo) fail.
C11_ListingDowngrade ==
    \A f \in FetchNames :
        FirstFailed(f) =>
            /\ FetchTask(f).pc = "done"
            /\ IF Downgradable(f)
               THEN /\ Unwrap(FetchTask(f).result) = Ok(<<>>)
                    /\ (IsSome(co_result) /\ ~Unwrap(co_result).ok) =>
                          \E g \in FetchNames \ {f} :
                             /\ ~Unwrap(FetchTask(g).result).ok
                             /\ Unwrap(co_result).error
                                  = Unwrap(FetchTask(g).result).error
               ELSE /\ Unwrap(FetchTask(f).result)
                         = Err(Unwrap(co_first[f]).error)
                    /\ IsSome(co_result) => ~Unwrap(co_result).ok

\* commits are disabled, the issues and the reviews are all fetched
C11_Witness ==
    /\ Downgradable("commits")
    /\ IsSome(co_result)
    /\ Unwrap(co_result).ok
    /\ Uids(Unwrap(co_result).value) = <<"i1", "i2", "r1", "r2", "r3">>

----------------------------------------------------------------------------
(* Properties of the profile fetch *)

ProfileFailed(tr) == IsSome(tr.profile) /\ ~Unwrap(tr.profile).ok

UserNotFound(tr) ==
    /\ ProfileFailed(tr)
    /\ Unwrap(tr.profile).error = GitHubError(USERS_DOC_URL)

\* C12: when the profile fetch of a non-override author fails with the "user
\* not found" cause, the group is processed with an author that has neither
\* company nor email and every contribution of the group that is in the window
\* is reported; when it fails in any other way, process_contributions returns
\* that error.
C12_NotFoundDegrades ==
    \A n \in DOMAIN trace :
        ProfileFailed(trace[n]) =>
            IF UserNotFound(trace[n])
            THEN \/ /\ trace[n].outcome = "error"
                    /\ trace[n].memberships # <<>>
                    /\ ~trace[n].memberships[Len(trace[n].memberships)].ok
                 \/ /\ trace[n].outcome \in {"yield", "skip_empty"}
                    /\ trace[n].user
                         = Some(EnrichedUser(Unwrap(trace[n].key), None, None))
                    /\ \A i \in DOMAIN trace[n].group :
                          InWindow(trace[n].group[i]) =>
                             \E o \in DOMAIN outputs :
                                /\ outputs[o].user = trace[n].user
                                /\ trace[n].group[i] \in Range(outputs[o].contributions)
            ELSE /\ trace[n].outcome = "error"
                 /\ pc = "done"
                 /\ result = Some(Err(Unwrap(trace[n].profile).error))

\* an author that was not found, in a run whose rule on the contribution's
\* repository could have matched: the contribution in the window is reported
C12_Witness ==
    /\ pc = "done" /\ Unwrap(result).ok
    /\ cfg.repos = <<ConfigRepo(R1, <<S_Acme>>)>>
    /\ cfg.since = Some(1)
    /\ \E n \in DOMAIN trace :
          /\ UserNotFound(trace[n])
          /\ Len(trace[n].group) = 2
          /\ \E o \in DOMAIN Unwrap(result).value :
                /\ Unwrap(result).value[o].user
                     = Some(EnrichedUser(alice, None, None))
                /\ Len(Unwrap(result).value[o].contributions) = 1
                /\ Unwrap(result).value[o].contributions[1].repo = R1

----------------------------------------------------------------------------
(* Properties of a whole run *)

FailedTasks == { i \in DOMAIN m_tasks : ~m_tasks[i].ok }

FailedGroups == { n \in DOMAIN trace : trace[n].outcome = "error" }

NothingReported == m_stdout = <<>> /\ per_repo = EmptyMap

\* C13: when the fetch of a tracked repository fails, main returns that error
\* without entering process_contributions; when a profile fetch or a membership
\* check fails, process_contributions returns that error and no Output, and
\* main returns it; in both cases nothing is printed.
C13_FailFast ==
    /\ FailedTasks # {} =>
          /\ m_pc = "exit"
          /\ \E i \in FailedTasks :
                /\ m_exit = Some(Err(m_tasks[i].error))
                /\ \A j \in FailedTasks : i <= j
          /\ pc = "idle" /\ calls = <<>> /\ outputs = <<>>
          /\ NothingReported
    /\ \A n \in FailedGroups :
          /\ pc = "done"
          /\ result = Some(Err(Unwrap(trace[n].error)))
          /\ NothingReported
          /\ m_pc = "exit" => m_exit = result
    /\ (IsSome(m_exit) /\ ~Unwrap(m_exit).ok) => NothingReported
    /\ ~NothingReported =>
          /\ FailedTasks = {} /\ FailedGroups = {}
          /\ m_exit = Some(Ok(<<>>))

\* both repositories were fetched, one author was processed and has an Output,
\* then another author's profile fetch failed: main has returned the error
C13_Witness ==
    /\ m_pc = "exit"
    /\ Len(m_tasks) = 2
    /\ \A i \in DOMAIN m_tasks : m_tasks[i].ok /\ m_tasks[i].value # <<>>
    /\ outputs # <<>>
    /\ FailedGroups # {}
    /\ m_exit = Some(Err(GitHubError(UNRELATED_DOC_URL)))
    /\ NothingReported

----------------------------------------------------------------------------
(* Properties of the retries *)

\* the failed attempts of the request that is pending or was the last one
LastFailed == IF pw.failed = <<>> THEN 0 ELSE pw.failed[Len(pw.failed)]

\* C14: a next-page request is attempted at most 5 times; a request that
\* succeeded did so after at most 4 failures and its page was taken; when the
\* fifth attempt fails too, process_pages returns that last failure and none
\* of the items it had collected.
C14_AtMostFiveAttempts ==
    /\ \A i \in DOMAIN pw.failed : pw.failed[i] <= 5
    /\ \A i \in DOMAIN pw.failed : i < Len(pw.failed) => pw.failed[i] <= 4
    /\ pw.pc = "fetch" =>
          /\ LastFailed <= 4
          /\ IsSome(pw.page.next) => pw.tries_left = 5 - LastFailed
          /\ pw.result = None
    /\ pw.pc = "done" =>
          /\ LastFailed = 5 <=> ~Unwrap(pw.result).ok
          /\ ~Unwrap(pw.result).ok =>
                /\ Unwrap(pw.result) = Err(Unwrap(pw.last_error))
                /\ DOMAIN Unwrap(pw.result) = {"ok", "error"}

\* the request for page 2 succeeded at its fifth attempt, the request for
\* page 3 failed five times: the items of pages 1 and 2 are not returned
C14_Witness ==
    /\ pw.pc = "done"
    /\ Len(pw_chain) = 3
    /\ pw.failed = <<4, 5>>
    /\ pw.items = pw_chain[1] \o pw_chain[2]
    /\ pw.items # <<>>
    /\ Unwrap(pw.result) = Err(OtherError)

\* a platform error response, as opposed to a transport or pagination failure
Semantic(error) == error.variant = "GitHub"

\* C15: a next-page request that is answered with a platform error response is
\* not attempted again: process_pages returns that error after the one attempt.
C15_SemanticNotRetried ==
    (IsSome(pw.last_error) /\ Semantic(Unwrap(pw.last_error))) =>
        /\ pw.pc = "done"
        /\ LastFailed = 1
        /\ pw.result = Some(Err(Unwrap(pw.last_error)))

----------------------------------------------------------------------------
(* Properties of the membership check *)

\* an answer that ends the queries: a member, or a failure
Stops(answer) == ~answer.ok \/ answer.value

\* the number of organizations that are queried given what each would answer
Queried(answers) ==
    IF \E i \in DOMAIN answers : Stops(answers[i])
    THEN CHOOSE i \in DOMAIN answers :
            Stops(answers[i]) /\ \A j \in 1..(i - 1) : ~Stops(answers[j])
    ELSE Len(answers)

MembershipCalls(tr) ==
    SelectSeq(tr.calls, LAMBDA call : call.op = "check_membership")

CheckedMembership(tr) ==
    \E i \in DOMAIN tr.stages : tr.stages[i] = "check_membership"

\* C16: the organizations are queried in configured order up to the first
\* that reports the login as a member; membership is true iff one was
\* reported before any failure; a failure before any true answer aborts the
\* run; organizations after the first true answer are not queried, whatever
\* they would have answered; without organizations membership is false.
C16_MembershipShortCircuit ==
    \A n \in DOMAIN trace :
        CheckedMembership(trace[n]) =>
            LET tr == trace[n]
                k == Queried(tr.answers)
            IN  /\ Len(tr.answers) = Len(cfg.company_orgs)
                /\ MembershipCalls(tr) =
                      [i \in 1..k |->
                          MembershipCall(cfg.company_orgs[i],
                                         Unwrap(tr.key).login)]
                /\ IF k > 0 /\ ~tr.answers[k].ok
                   THEN /\ tr.outcome = "error"
                        /\ result = Some(Err(tr.answers[k].error))
                   ELSE /\ tr.outcome \in {"yield", "skip_empty"}
                        /\ tr.membership <=>
                              \E i \in 1..k : tr.answers[i] = Ok(TRUE)
                        /\ \A o \in DOMAIN outputs :
                              outputs[o].user = tr.user =>
                                  outputs[o].membership = tr.membership
                /\ cfg.company_orgs = <<>> => ~tr.membership

\* three organizations: the first answers no, the second yes, the third would
\* have failed; two queries were made and the author is reported as a member
C16_Witness ==
    /\ pc = "done" /\ Unwrap(result).ok
    /\ \E n \in DOMAIN trace :
          /\ trace[n].answers = <<Ok(FALSE), Ok(TRUE), Err(OtherError)>>
          /\ Len(MembershipCalls(trace[n])) = 2
          /\ trace[n].outcome = "yield"
          /\ \E o \in DOMAIN Unwrap(result).value :
                /\ Unwrap(result).value[o].user = trace[n].user
                /\ Unwrap(result).value[o].membership

----------------------------------------------------------------------------
(* Properties of the override membership *)

Overridden(tr) ==
    /\ IsSome(tr.key)
    /\ HasOverride(Unwrap(tr.key).login)
    /\ ~ExcludedLogin(Unwrap(tr.key).login)

CompanyIsOrg(company) ==
    \E i \in DOMAIN cfg.company_orgs : cfg.company_orgs[i] = company

\* C17: the membership of an author with an override is true iff the
\* override's company is one of the configured company organizations; no
\* organization is asked about that author.
C17_OverrideMembership ==
    \A n \in DOMAIN trace :
        Overridden(trace[n]) =>
            /\ MembershipCalls(trace[n]) = <<>>
            /\ trace[n].answers = <<>>
            /\ Unwrap(Unwrap(trace[n].user).company)
                  \in OverrideCompanies(Unwrap(trace[n].key).login)
            /\ trace[n].membership
                  <=> CompanyIsOrg(Unwrap(Unwrap(trace[n].user).company))
            /\ \A o \in DOMAIN outputs :
                  outputs[o].user = trace[n].user =>
                      (outputs[o].membership
                         <=> CompanyIsOrg(Unwrap(Unwrap(trace[n].user).company)))

\* alice's override names the configured organization and she is reported as
\* a member, in a run where the organization denied another author
C17_Witness ==
    /\ pc = "done" /\ Unwrap(result).ok
    /\ cfg.company_orgs = <<S_heroku>>
    /\ cfg.user_overrides = <<UserOverride("alice", S_heroku)>>
    /\ \E o \in DOMAIN Unwrap(result).value :
          /\ IsSome(Unwrap(result).value[o].user)
          /\ Unwrap(Unwrap(result).value[o].user).inner.login = "alice"
          /\ Unwrap(result).value[o].membership
    /\ \E n \in DOMAIN trace : trace[n].answers = <<Ok(FALSE)>>
    /\ \A i \in DOMAIN calls : calls[i].login = "bob"

----------------------------------------------------------------------------
(* Properties of the per-repository view *)

\* the contributions of the Output records that main reports
ReportedContributions ==
    { c \in UNION { Range(Unwrap(result).value[o].contributions) :
                      o \in DOMAIN Unwrap(result).value } :
        \E o \in DOMAIN Unwrap(result).value :
            /\ ~Unwrap(result).value[o].membership
            /\ c \in Range(Unwrap(result).value[o].contributions) }

Occurrences(c) ==
    { <<r, i>> \in UNION { {r} \X DOMAIN per_repo[r] : r \in DOMAIN per_repo } :
        per_repo[r][i] = c }

Totals == SelectSeq(m_stdout, LAMBDA l : l.line = "total")

\* C18: every contribution of a reported Output is once in the bucket of its
\* own repository and nowhere else, the buckets hold nothing else, no bucket
\* is filtered again by window or membership, and both totals are the number
\* of reported contributions.
C18_PerRepoRegrouping ==
    (IsSome(m_exit) /\ Unwrap(m_exit).ok) =>
        /\ \A c \in ReportedContributions :
              /\ Cardinality(Occurrences(c)) = 1
              /\ \A at \in Occurrences(c) : at[1] = c.repo
        /\ \A r \in DOMAIN per_repo :
              /\ per_repo[r] # <<>>
              /\ Range(per_repo[r]) \subseteq ReportedContributions
              /\ \A i \in DOMAIN per_repo[r] : per_repo[r][i].repo = r
              /\ r \in { cfg.repos[i].repo : i \in DOMAIN cfg.repos }
        /\ Len(Totals) = 2
        /\ Totals[1].all = Cardinality(ReportedContributions)
        /\ Totals[2].all = Totals[1].all

\* two buckets, one of them holding an authorless commit from before the window
C18_Witness ==
    /\ IsSome(m_exit) /\ Unwrap(m_exit).ok
    /\ DOMAIN per_repo = {R1, R2}
    /\ Len(m_stdout) = 9
    /\ \E i \in DOMAIN per_repo[R1] :
          /\ user(per_repo[R1][i]) = None
          /\ ~InWindow(per_repo[R1][i])
    /\ Totals[2].all = 2

====
